---- MODULE Spec2Model ----
(***************************************************************************)
(* Model of fishnet's component build-and-render engine: the process-wide  *)
(* render context slot, the per-page component store, the global store and *)
(* the static/dynamic promotion done by BuildableComponent::build, driven  *)
(* by BuiltPage::render running as concurrent request handlers.            *)
(*                                                                         *)
(* Every section of code that runs between taking and dropping a tokio     *)
(* mutex without an await in between is one action, guarded by the mutex   *)
(* being free.  Where the code awaits while holding a mutex (enter_page    *)
(* awaits the component store, GlobalStore::add awaits the render context) *)
(* the holder is recorded in ctxLock / storeLock and the code is split at  *)
(* the await.  Purely local code that follows such a section is folded     *)
(* into the action of that section.                                        *)
(***************************************************************************)
EXTENDS Integers, Sequences, FiniteSets, TLC

\* ---------------------------------------------------------------- bounds
\* the number of BuiltPage::render calls (page requests) of a run
MaxRenders == 2

\* the pages of the website; BuiltPage::render holds the page mutex from
\* before enter_page until after exit_page, so the requests for one page are
\* one sequential stream: the request handler of page p is task p
Pages == {1, 2}
Tasks == Pages

\* stand-in for usize::MAX (2^64 - 1); TLC integers are 32 bit wide and the
\* depth never comes near either value
UsizeMax == 2147483647

\* ------------------------------------------------- the component universe
\* component definitions as the #[component] / #[dyn_component] macros emit
\* them: Component::new(name, id) ... .render(..) or .render_dynamic(..)
DefNames == {"Leaf", "Counter", "Wrap", "Outer", "Mixed"}

Def(d) ==
    CASE d = "Leaf"    -> [name |-> "Leaf",    id |-> "idLeaf",    forced |-> FALSE,
                           kids |-> <<>>,          router |-> TRUE,  runner |-> FALSE,
                           style |-> TRUE, scripts |-> TRUE]
      [] d = "Counter" -> [name |-> "Counter", id |-> "idCounter", forced |-> TRUE,
                           kids |-> <<>>,          router |-> FALSE, runner |-> TRUE,
                           style |-> FALSE, scripts |-> FALSE]
      [] d = "Wrap"    -> [name |-> "Wrap",    id |-> "idWrap",    forced |-> FALSE,
                           kids |-> <<"d">>,       router |-> FALSE, runner |-> FALSE,
                           style |-> TRUE, scripts |-> FALSE]
      [] d = "Outer"   -> [name |-> "Outer",   id |-> "idOuter",   forced |-> FALSE,
                           kids |-> <<"w">>,       router |-> FALSE, runner |-> FALSE,
                           style |-> FALSE, scripts |-> TRUE]
      [] d = "Mixed"   -> [name |-> "Mixed",   id |-> "idMixed",   forced |-> FALSE,
                           kids |-> <<"md", "ms">>, router |-> FALSE, runner |-> FALSE,
                           style |-> FALSE, scripts |-> FALSE]

\* the context ids (one per c! call site) and the component each one builds
Sites == {"a", "a2", "b", "w1", "w2", "o", "m", "d", "w", "md", "ms"}

SiteDef(s) ==
    CASE s \in {"a", "a2", "ms"}   -> "Leaf"
      [] s \in {"b", "d", "md"}    -> "Counter"
      [] s \in {"w1", "w2", "w"}   -> "Wrap"
      [] s = "o"                   -> "Outer"
      [] s = "m"                   -> "Mixed"

\* the page bodies a page may be given with Page::with_body
Bodies == { <<"a", "b">>, <<"a", "a2">>, <<"w1", "w2">>, <<"o">>, <<"m">> }
SmallBodies == { <<"b">> }
PageBodies(p) == IF p = 1 THEN Bodies ELSE SmallBodies
\* the bodies whose components render components of their own
NestedBodies == { <<"o">> }

GlobalIds == {Def(d).id : d \in DefNames}

\* ----------------------------------------------------------------- markup
Text(n) == << [cls |-> "text", n |-> n, kids |-> <<>>] >>
Div(cls, content) == << [cls |-> cls, n |-> 0, kids |-> content] >>
Empty == <<>>

\* css::pascal_to_kebab on the component names of the universe
pascal_to_kebab(name) ==
    CASE name = "Leaf"    -> "leaf"
      [] name = "Counter" -> "counter"
      [] name = "Wrap"    -> "wrap"
      [] name = "Outer"   -> "outer"
      [] name = "Mixed"   -> "mixed"

\* what a component's render function returns: its state counter (bumped on
\* every invocation) followed by the markup of the components it rendered
RendererOutput(nval, acc) == Text(nval) \o acc

\* render_component answering a missing context with the diagnostic of an
\* exited page render
NoPageMarkupExited == Div("error: page render exited", Empty)

\* the diagnostic of a build with debug_assertions (a release build returns
\* empty markup there)
NoPageMarkup == Div("error: no page is being rendered", Empty)

\* a render_component that returns nothing when it finds the context gone
PageExitedMarkupSilent == Empty

\* the diagnostic render_component returns when the context is gone at its
\* second lock
PageExitedMarkup == Div("error: page render exited", Empty)

\* ------------------------------------------------------------------ state
VARIABLES
    ctx,        \* RENDER_CONTEXT: <<>> (None) or <<RenderContext>> (Some)
    ctxLock,    \* holder of the render context mutex, 0 when free
    compLock,   \* per page: the ComponentStore mutex is held (by a context)
    pageLock,   \* per page: the BuiltPage mutex is held
    cache,      \* per page: ComponentStore, context id -> instance (<<>>: none)
    store,      \* GlobalStore: resource id -> instance that filled it (<<>>: none)
    storeLock,  \* holder of the GlobalStore mutex, 0 when free
    insts,      \* per task and context id: the components its build closure made
    apiRouter,  \* per page: APIRouter.routes, component route -> instance
    body,       \* per page: the context ids its body renders
    pc,         \* per task: position in BuiltPage::render
    stack,      \* per task: the render_component calls in progress
    result,     \* per task: the RenderResult exit_page returned
    started,    \* number of BuiltPage::render calls started
    outputs,    \* per page: the body markup of each completed render
    results,    \* per page: every RenderResult its exit_page calls returned
    addCalls,   \* per resource id: GlobalStore::add calls
    initEvals,  \* per resource id: evaluations of the lazy initializer
    overlapped, \* enter_page has found a context already active
    discarded,  \* what the contexts replaced by enter_page had accumulated
    builder,    \* a Component descriptor under construction
    bundle,     \* per resource id: the bundling task BuiltPage::render spawned
    serving     \* per page: the script / style request being handled

vars == <<ctx, ctxLock, compLock, pageLock, cache, store, storeLock, insts,
          apiRouter, body, pc, stack, result, started, outputs, results,
          addCalls, initEvals, overlapped, discarded, builder, bundle, serving>>

\* Component::new
ComponentNew ==
    [renderer_state |-> "NoRenderer", state_state |-> "NoState", opaque |-> FALSE,
     is_dynamic |-> FALSE, renderer |-> FALSE, runner |-> FALSE, router |-> FALSE,
     style |-> FALSE, scripts |-> FALSE, built |-> FALSE,
     with_state_calls |-> 0, render_calls |-> 0, state_after_renderer |-> FALSE,
     added |-> [scripts |-> FALSE, style |-> FALSE, route |-> FALSE, runner |-> FALSE],
     result |-> <<>>]

\* no bundling task has been spawned for the resource id
NoTask == [page |-> 0, stage |-> "none", joined |-> FALSE]

\* ----------------------------------------------------------------- helpers
\* ComponentRoute::new
ComponentRouteNew(base_route, name, id) ==
    [full |-> <<base_route, name, id>>, component |-> <<name, id>>]

\* RenderContext::new
RenderContextNew(p) ==
    [page |-> p, new_globals |-> {}, static_state |-> FALSE,
     temporary_render_depth |-> 0, new_runners |-> <<>>, new_routers |-> <<>>]

\* RenderContext::finish
Finish(c) ==
    [runners |-> c.new_runners, routers |-> c.new_routers,
     new_components |-> c.new_globals]

\* a notify_global that records nothing
NotifyGlobalForgotten(c, id) == c

\* RenderContext::notify_global
NotifyGlobal(c, id) == [c EXCEPT !.new_globals = @ \cup {id}]

\* an instance is named <<task, context id, k>>: the k-th component the task
\* constructed for that context id
None == <<>>
Inst(i) == insts[i[1]][i[2]][i[3]]
page(t) == t

\* the number of times the build closure of a context id was invoked by the
\* renders of page p
BuildCount(p, s) == Len(insts[p][s])

\* BuiltComponent::is_dynamic
IsDynamic(i) == Inst(i).content # "Static"

\* BuiltComponent::render on Static content: the frozen markup in the
\* component's div
StaticRender(i) == Div(pascal_to_kebab(Def(Inst(i).def).name), Inst(i).markup)

\* BuiltComponent::render_if_static, as Option
RenderIfStatic(i) ==
    IF Inst(i).content = "Static" THEN << StaticRender(i) >> ELSE <<>>

\* BuiltComponent::content_cloned, which render_component calls on a cached
\* component: a handle on the component's content that renders (and renders
\* if static) as the cached component does
ContentCloned(i) == i

\* Option::unwrap_or_default on Markup
UnwrapOrDefault(opt) == IF opt = <<>> THEN Empty ELSE opt[1]

\* the guard as its comment intends it: outside a temporary render only
InsertGuardOutsideProbe(depth) == ~(depth > 0)

\* the condition `!context.temporary_render_depth > 0`: `!` is the bitwise
\* complement of the usize and binds tighter than `>`
InsertGuard(depth) == (UsizeMax - depth) > 0

BodyFrame ==
    [pc |-> "body", site |-> "body", temp |-> FALSE, inst |-> None, hit |-> FALSE,
     kidx |-> 1, acc |-> Empty, nval |-> 0, render |-> Empty, saw |-> FALSE]

Top(t) == stack[t][Len(stack[t])]

\* the context ids the code running in frame f renders, in order
KidsOf(t, f) ==
    IF f.pc = "body" THEN body[page(t)] ELSE Def(Inst(f.inst).def).kids

\* frame f is inside a render function (or the page body)
InFn(f) == f.pc \in {"body", "probe", "real"}
HasNextKid(t, f) == InFn(f) /\ f.kidx <= Len(KidsOf(t, f))
FnDone(t, f) == InFn(f) /\ f.kidx > Len(KidsOf(t, f))

\* the caller receives markup m from the render_component call it awaited
Receive(f, m) == [f EXCEPT !.acc = @ \o m, !.kidx = @ + 1]

\* render_component returns m: its frame is popped, the caller receives m
\* (saw records for the caller that a dynamic component was rendered in the
\* call: the component of the call or one rendered inside it)
ReturnFrom(stk, m) ==
    LET n == Len(stk) IN
    [k \in 1..(n - 1) |->
        IF k = n - 1
        THEN [Receive(stk[k], m) EXCEPT
                 !.saw = @ \/ stk[n].saw \/ IsDynamic(stk[n].inst)]
        ELSE stk[k]]


\* ------------------------------------------------------------------- Init
Init ==
    /\ ctx = <<>>
    /\ ctxLock = 0
    /\ compLock = [p \in Pages |-> FALSE]
    /\ pageLock = [p \in Pages |-> FALSE]
    /\ cache = [p \in Pages |-> [s \in Sites |-> None]]
    /\ store = [g \in GlobalIds |-> None]
    /\ storeLock = 0
    /\ insts = [t \in Tasks |-> [s \in Sites |-> <<>>]]
    /\ apiRouter = [p \in Pages |-> {}]
    /\ body \in {b \in [Pages -> Bodies \cup SmallBodies] :
                     \A p \in Pages : b[p] \in PageBodies(p)}
    /\ pc = [t \in Tasks |-> "idle"]
    /\ stack = [t \in Tasks |-> <<>>]
    /\ result = [t \in Tasks |-> Finish(RenderContextNew(1))]
    /\ started = 0
    /\ outputs = [p \in Pages |-> <<>>]
    /\ results = [p \in Pages |-> <<>>]
    /\ addCalls = [g \in GlobalIds |-> 0]
    /\ initEvals = [g \in GlobalIds |-> 0]
    /\ overlapped = FALSE
    /\ discarded = [runners |-> {}, routers |-> {}, new_components |-> {}]
    /\ builder = ComponentNew
    /\ bundle = [g \in GlobalIds |-> NoTask]
    /\ serving = [p \in Pages |-> "idle"]

\* --------------------------------------------------- BuiltPage::render (1)
\* a request for the page of task t arrives and takes the page mutex
StartRender(t) ==
    /\ pc[t] = "idle"
    /\ started < MaxRenders
    /\ ~pageLock[page(t)]
    /\ pageLock' = [pageLock EXCEPT ![page(t)] = TRUE]
    /\ pc' = [pc EXCEPT ![t] = "enter"]
    /\ started' = started + 1
    /\ UNCHANGED <<bundle, serving, builder, discarded, ctx, ctxLock, compLock, cache, store, storeLock, insts,
                   apiRouter, body, stack, result, outputs, results,
                   addCalls, initEvals, overlapped>>

\* enter_page up to the await in RenderContext::new: the render context
\* mutex is taken and kept, a context already present is only warned about
EnterPageLock(t) ==
    /\ pc[t] = "enter"
    /\ ctxLock = 0
    /\ ctxLock' = t
    /\ overlapped' = (overlapped \/ ctx # <<>>)
    /\ pc' = [pc EXCEPT ![t] = "enter_new"]
    /\ UNCHANGED <<bundle, serving, builder, discarded, ctx, compLock, pageLock, cache, store, storeLock, insts,
                   apiRouter, body, stack, result, started, outputs,
                   results, addCalls, initEvals>>

\* a replace that carries the accumulators of the context it replaces over
OptionReplaceKeeping(old, new) ==
    IF old = <<>> THEN << new >>
    ELSE << [new EXCEPT !.new_globals = old[1].new_globals,
                        !.new_runners = old[1].new_runners,
                        !.new_routers = old[1].new_routers] >>

\* Option::replace: the slot holds the new context, the old one is dropped
OptionReplace(old, new) == << new >>

\* the accumulators of a dropped context join those dropped before
Discard(c) ==
    [runners |-> discarded.runners \cup {c.new_runners[k] : k \in DOMAIN c.new_runners},
     routers |-> discarded.routers \cup {c.new_routers[k] : k \in DOMAIN c.new_routers},
     new_components |-> discarded.new_components \cup c.new_globals]

\* the rest of enter_page: components.lock_owned() succeeded, the new context
\* replaces the old one (dropping it releases the old page's component store)
EnterPageNew(t) ==
    LET p == page(t) IN
    /\ pc[t] = "enter_new"
    /\ ~compLock[p]
    /\ compLock' = [q \in Pages |->
                      IF q = p THEN TRUE
                      ELSE IF ctx # <<>> /\ ctx[1].page = q THEN FALSE
                      ELSE compLock[q]]
    /\ ctx' = OptionReplace(ctx, RenderContextNew(p))
    /\ discarded' = IF ctx = <<>> THEN discarded ELSE Discard(ctx[1])
    /\ ctxLock' = 0
    /\ pc' = [pc EXCEPT ![t] = "body"]
    /\ stack' = [stack EXCEPT ![t] = << BodyFrame >>]
    /\ UNCHANGED <<bundle, serving, builder, pageLock, cache, store, storeLock, insts, apiRouter, body,
                   result, started, outputs, results, addCalls,
                   initEvals, overlapped>>

\* -------------------------------------------------------- render_component
\* build() probing every component, forced-dynamic or not
NewInstanceAlwaysProbed(d, base_route) ==
    [def |-> d, content |-> "Pending", markup |-> Empty, n |-> 0, shown |-> 0,
     route |-> ComponentRouteNew(base_route, Def(d).name, Def(d).id)]

\* a component constructed by the build closure; build() fixes the content of
\* a forced-dynamic one without probing
NewInstance(d, base_route) ==
    [def |-> d, content |-> IF Def(d).forced THEN "Dynamic" ELSE "Pending",
     markup |-> Empty, n |-> 0, shown |-> 0,
     route |-> ComponentRouteNew(base_route, Def(d).name, Def(d).id)]

\* a probe that leaves no trace of having run the render function
InvokeUncounted(i) == insts

\* the render function of instance i is invoked: it bumps its state counter
Invoke(i) == [insts EXCEPT ![i[1]][i[2]][i[3]].n = @ + 1]

\* a BuiltComponent::render that invokes the render function whatever the
\* content is
RenderReinvoking(i) ==
    [insts EXCEPT ![i[1]][i[2]][i[3]] = [@ EXCEPT !.shown = @ + 1, !.n = @ + 1]]

\* BuiltComponent::render is called on instance i (shown counts the calls):
\* Dynamic content invokes the render function, Static content does not
Render(i) ==
    [insts EXCEPT ![i[1]][i[2]][i[3]] =
        IF @.content = "Static" THEN [@ EXCEPT !.shown = @ + 1]
        ELSE [@ EXCEPT !.shown = @ + 1, !.n = @ + 1]]

\* the frame of a render_component call that invokes the render function of
\* instance i outside a probe (BuiltComponent::render on Dynamic content)
RealFrame(f, i) ==
    [f EXCEPT !.pc = "real", !.inst = i, !.kidx = 1, !.acc = Empty,
              !.nval = Inst(i).n + 1]

\* a render_component that keeps context_guard across the build and render
DropGuardForgotten(holder) == holder

\* drop(context_guard): the holder of the render context mutex afterwards
DropGuard(holder) == 0

\* a call that found its component cached but goes on as if it had built it
CachedAsBuilt(fr) == fr

\* the branch of render_component for an existing component: the call goes
\* on to the second lock only, not to the commit of a new component
Cached(fr) == [fr EXCEPT !.hit = TRUE]

\* render_component from its start to the first drop(context_guard), with the
\* local code up to the next await on a mutex
RenderComponent(t) ==
    /\ pc[t] = "body"
    /\ HasNextKid(t, Top(t))
    /\ ctxLock = 0
    /\ LET f == Top(t)
           site == KidsOf(t, f)[f.kidx]
           n == Len(stack[t])
           fresh == [BodyFrame EXCEPT !.pc = "start", !.site = site]
       IN
       IF ctx = <<>>
       THEN \* no page is being rendered
            /\ stack' = [stack EXCEPT ![t][n] = Receive(f, NoPageMarkup)]
            /\ ctxLock' = 0
            /\ UNCHANGED insts
       ELSE LET c == ctx[1]
                is_temporary == c.temporary_render_depth > 0
                existing == cache[c.page][site]
                content == ContentCloned(existing)
                d == SiteDef(site)
                i == <<t, site, Len(insts[t][site]) + 1>>
            IN
            /\ ctxLock' = DropGuard(t)
            /\ IF existing # None
               THEN IF is_temporary
                    THEN /\ stack' = [stack EXCEPT ![t] = Append(@,
                               Cached([fresh EXCEPT !.pc = "relock", !.temp = TRUE,
                                             !.inst = content,
                                             !.render = UnwrapOrDefault(RenderIfStatic(content))]))]
                         /\ UNCHANGED insts
                    ELSE IF Inst(content).content = "Static"
                    THEN /\ stack' = [stack EXCEPT ![t] = Append(@,
                               Cached([fresh EXCEPT !.pc = "relock", !.inst = content,
                                             !.render = StaticRender(content)]))]
                         /\ insts' = Render(content)
                    ELSE /\ stack' = [stack EXCEPT ![t] = Append(@,
                               RealFrame(Cached(fresh), content))]
                         /\ insts' = Render(content)
               ELSE \* cache miss: lazy_component() and the start of build()
                    /\ insts' = [insts EXCEPT ![t][site] = Append(@, NewInstance(d, c.page))]
                    /\ stack' = [stack EXCEPT ![t] = Append(@,
                           [fresh EXCEPT !.temp = is_temporary, !.inst = i,
                                         !.pc = IF NewInstance(d, c.page).content = "Dynamic"
                                                THEN "add" ELSE "enter_temp"])]
    /\ UNCHANGED <<bundle, serving, builder, discarded, ctx, compLock, pageLock, cache, store, storeLock,
                   apiRouter, body, pc, result, started, outputs,
                   results, addCalls, initEvals, overlapped>>

\* enter_temporary_render, then build() invokes the render function
EnterTemporaryRender(t) ==
    /\ pc[t] = "body"
    /\ Top(t).pc = "enter_temp"
    /\ ctxLock = 0
    /\ LET f == Top(t)
           n == Len(stack[t])
       IN
       /\ ctx' = IF ctx = <<>> THEN ctx
                 ELSE << [ctx[1] EXCEPT
                            !.static_state =
                                IF ctx[1].temporary_render_depth = 0 THEN TRUE ELSE @,
                            !.temporary_render_depth = @ + 1] >>
       /\ insts' = Invoke(f.inst)
       /\ stack' = [stack EXCEPT ![t][n] =
                      [f EXCEPT !.pc = "probe", !.kidx = 1, !.acc = Empty,
                                !.nval = Inst(f.inst).n + 1]]
    /\ UNCHANGED <<bundle, serving, builder, discarded, ctxLock, compLock, pageLock, cache, store, storeLock,
                   apiRouter, body, pc, result, started, outputs,
                   results, addCalls, initEvals, overlapped>>

\* exit_temporary_render reporting the opposite of static_state
ExitTemporaryResultInverted ==
    IF ctx = <<>> THEN TRUE
    ELSE IF ctx[1].temporary_render_depth = 0 THEN TRUE
    ELSE ~ctx[1].static_state

\* what exit_temporary_render returns
ExitTemporaryResult ==
    IF ctx = <<>> THEN TRUE
    ELSE IF ctx[1].temporary_render_depth = 0 THEN TRUE
    ELSE ctx[1].static_state

\* an exit_temporary_render that leaves the depth as it is
ExitDepthKept(c) == c

\* exit_temporary_render: temporary_render_depth -= 1
ExitDepth(c) == [c EXCEPT !.temporary_render_depth = @ - 1]

\* the probe render has returned: exit_temporary_render, then build() freezes
\* the probe's markup or keeps the renderer
ExitTemporaryRender(t) ==
    /\ pc[t] = "body"
    /\ Top(t).pc = "probe"
    /\ FnDone(t, Top(t))
    /\ ctxLock = 0
    /\ LET f == Top(t)
           n == Len(stack[t])
           render == RendererOutput(f.nval, f.acc)
       IN
       /\ ctx' = IF ctx = <<>> \/ ctx[1].temporary_render_depth = 0 THEN ctx
                 ELSE << ExitDepth(ctx[1]) >>
       /\ insts' = [insts EXCEPT ![f.inst[1]][f.inst[2]][f.inst[3]] =
                      IF ExitTemporaryResult
                      THEN [@ EXCEPT !.content = "Static", !.markup = render]
                      ELSE [@ EXCEPT !.content = "Dynamic"]]
       /\ stack' = [stack EXCEPT ![t][n] = [f EXCEPT !.pc = "add"]]
    /\ UNCHANGED <<bundle, serving, builder, discarded, ctxLock, compLock, pageLock, cache, store, storeLock,
                   apiRouter, body, pc, result, started, outputs,
                   results, addCalls, initEvals, overlapped>>

\* a render_component that renders a new component in full inside a probe too
AfterBuildFrameIgnoringProbe(f) ==
    IF Inst(f.inst).content = "Static"
    THEN [f EXCEPT !.pc = "commit", !.render = StaticRender(f.inst)]
    ELSE RealFrame(f, f.inst)

\* build() has returned: render_component renders the new component
\* (render_if_static inside a probe, BuiltComponent::render otherwise)
AfterBuildFrame(f) ==
    IF f.temp
    THEN [f EXCEPT !.pc = "commit",
                   !.render = UnwrapOrDefault(RenderIfStatic(f.inst))]
    ELSE IF Inst(f.inst).content = "Static"
    THEN [f EXCEPT !.pc = "commit", !.render = StaticRender(f.inst)]
    ELSE RealFrame(f, f.inst)

AfterBuildInsts(f) == IF f.temp THEN insts ELSE Render(f.inst)

\* GlobalStore::add inserting without looking at the entry
VacantAlways(id) == TRUE

\* the HashMap entry of a resource id in GlobalStore::add is Entry::Vacant
Vacant(id) == store[id] = None

\* GlobalStore::add up to its await on the render context: the store mutex is
\* taken; an occupied entry ends the call, a vacant one is filled by the
\* globals closure and the mutex is kept
GlobalStoreAdd(t) ==
    /\ pc[t] = "body"
    /\ Top(t).pc = "add"
    /\ storeLock = 0
    /\ LET f == Top(t)
           n == Len(stack[t])
           id == Def(Inst(f.inst).def).id
       IN
       /\ addCalls' = [addCalls EXCEPT ![id] = @ + 1]
       /\ IF Vacant(id)
          THEN /\ store' = [store EXCEPT ![id] = f.inst]
               /\ initEvals' = [initEvals EXCEPT ![id] = @ + 1]
               /\ storeLock' = t
               /\ stack' = [stack EXCEPT ![t][n] = [f EXCEPT !.pc = "notify"]]
               /\ UNCHANGED insts
          ELSE /\ stack' = [stack EXCEPT ![t][n] = AfterBuildFrame(f)]
               /\ insts' = AfterBuildInsts(f)
               /\ UNCHANGED <<store, initEvals, storeLock>>
    /\ UNCHANGED <<bundle, serving, builder, discarded, ctx, ctxLock, compLock, pageLock, cache, apiRouter, body,
                   pc, result, started, outputs, results,
                   overlapped>>

\* a GlobalStore::add whose store guard outlives the call
DropStoreGuardForgotten(holder) == holder

\* GlobalStore::add returns: the guard of the store mutex goes out of scope
DropStoreGuard(holder) == 0

\* the rest of GlobalStore::add for a new entry: the active context, if any,
\* is notified, then both mutexes are released
GlobalStoreNotify(t) ==
    /\ pc[t] = "body"
    /\ Top(t).pc = "notify"
    /\ ctxLock = 0
    /\ LET f == Top(t)
           n == Len(stack[t])
           id == Def(Inst(f.inst).def).id
       IN
       /\ ctx' = IF ctx = <<>> THEN ctx ELSE << NotifyGlobal(ctx[1], id) >>
       /\ storeLock' = DropStoreGuard(t)
       /\ stack' = [stack EXCEPT ![t][n] = AfterBuildFrame(f)]
       /\ insts' = AfterBuildInsts(f)
    /\ UNCHANGED <<bundle, serving, builder, discarded, ctxLock, compLock, pageLock, cache, store, apiRouter, body,
                   pc, result, started, outputs, results,
                   addCalls, initEvals, overlapped>>

\* the markup a finished render_component frame holds
Rendered(f) ==
    IF f.pc = "real"
    THEN Div(pascal_to_kebab(Def(Inst(f.inst).def).name),
             RendererOutput(f.nval, f.acc))
    ELSE f.render

\* an insert that keeps the entry a key already has
HashMapInsertIfAbsent(m, k, v) == IF m[k] = None THEN [m EXCEPT ![k] = v] ELSE m

\* HashMap::insert on a ComponentStore: the value replaces the key's entry
HashMapInsert(m, k, v) == [m EXCEPT ![k] = v]

\* render_component after building: the context is locked again and the new
\* component is committed to it
Commit(t) ==
    /\ pc[t] = "body"
    /\ LET f == Top(t) IN
         \/ f.pc = "commit"
         \/ f.pc = "real" /\ ~f.hit /\ FnDone(t, f)
    /\ ctxLock = 0
    /\ LET f == Top(t)
           i == f.inst
           d == Def(Inst(i).def)
       IN
       IF ctx = <<>>
       THEN \* page render exited while the component was being rendered
            /\ stack' = [stack EXCEPT ![t] = ReturnFrom(@, PageExitedMarkup)]
            /\ UNCHANGED <<ctx, cache>>
       ELSE LET c == ctx[1] IN
            /\ ctx' = << [c EXCEPT
                   !.static_state = (@ /\ ~IsDynamic(i)),
                   !.new_routers = IF d.router THEN Append(@, i) ELSE @,
                   !.new_runners = IF d.runner THEN Append(@, i) ELSE @] >>
            /\ cache' = IF InsertGuard(c.temporary_render_depth)
                        THEN [cache EXCEPT ![c.page] = HashMapInsert(@, f.site, i)]
                        ELSE cache
            /\ stack' = [stack EXCEPT ![t] = ReturnFrom(@, Rendered(f))]
    /\ UNCHANGED <<bundle, serving, builder, discarded, ctxLock, compLock, pageLock, store, storeLock, insts,
                   apiRouter, body, pc, result, started, outputs,
                   results, addCalls, initEvals, overlapped>>

\* render_component after rendering a cached component: the context is
\* locked again only to see that it is still there
Relock(t) ==
    /\ pc[t] = "body"
    /\ LET f == Top(t) IN
         \/ f.pc = "relock"
         \/ f.pc = "real" /\ f.hit /\ FnDone(t, f)
    /\ ctxLock = 0
    /\ stack' = [stack EXCEPT ![t] =
                   ReturnFrom(@, IF ctx = <<>> THEN PageExitedMarkup
                                 ELSE Rendered(Top(t)))]
    /\ UNCHANGED <<bundle, serving, builder, discarded, ctx, ctxLock, compLock, pageLock, cache, store, storeLock,
                   insts, apiRouter, body, pc, result, started, outputs,
                   results, addCalls, initEvals, overlapped>>

\* --------------------------------------------------- BuiltPage::render (2)
\* exit_page going on with a default result instead of panicking
ExpectOrDefault(c) == "mount"

\* Option::expect in exit_page: where the caller goes on
Expect(c) == IF c = <<>> THEN "panicked" ELSE "mount"

\* tokio::spawn of one bundling task per id of result.new_components, the
\* handles kept in the local `tasks` of BuiltPage::render
Spawn(p, ids) ==
    [g \in GlobalIds |->
        IF g \in ids THEN [page |-> p, stage |-> "check", joined |-> FALSE]
        ELSE bundle[g]]

\* the body has returned: exit_page takes the context, or panics on None
\* (the unwinding drops the page guard); then the page guard is dropped and
\* the bundling tasks of the new components are spawned
ExitPage(t) ==
    /\ pc[t] = "body"
    /\ Top(t).pc = "body"
    /\ FnDone(t, Top(t))
    /\ ctxLock = 0
    /\ pageLock' = [pageLock EXCEPT ![page(t)] = FALSE]
    /\ stack' = [stack EXCEPT ![t] = <<>>]
    /\ IF ctx = <<>>
       THEN /\ pc' = [pc EXCEPT ![t] = Expect(ctx)]
            /\ UNCHANGED <<ctx, compLock, result, outputs, results, bundle>>
       ELSE /\ pc' = [pc EXCEPT ![t] = Expect(ctx)]
            /\ ctx' = <<>>
            /\ bundle' = Spawn(page(t), Finish(ctx[1]).new_components)
            /\ compLock' = [compLock EXCEPT ![ctx[1].page] = FALSE]
            /\ result' = [result EXCEPT ![t] = Finish(ctx[1])]
            /\ results' = [results EXCEPT ![page(t)] =
                             Append(@, [from |-> ctx[1].page, res |-> Finish(ctx[1])])]
            /\ outputs' = [outputs EXCEPT ![page(t)] = Append(@, Top(t).acc)]
    /\ UNCHANGED <<serving, builder, discarded, ctxLock, cache, store, storeLock, insts, apiRouter, body,
                   started, addCalls, initEvals, overlapped>>

\* APIRouter::add_component for every router of a RenderResult
AddComponents(routes, routers) ==
    LET new == {Inst(i).route.component : i \in {routers[k] : k \in DOMAIN routers}} IN
    {r \in routes : r[1] \notin new}
      \cup {<<Inst(routers[k]).route.component, routers[k]>> :
              k \in {j \in DOMAIN routers :
                       \A l \in DOMAIN routers :
                          l > j => Inst(routers[l]).route.component
                                     # Inst(routers[j]).route.component}}

\* page.tasks.append(&mut tasks): the handles of the tasks this render
\* spawned go to the page
TasksAppend(p, ids) ==
    [g \in GlobalIds |->
        IF g \in ids /\ bundle[g].page = p THEN [bundle[g] EXCEPT !.joined = TRUE]
        ELSE bundle[g]]

\* the page mutex is taken again, the task handles are handed to the page
\* and the collected routers are mounted
Mount(t) ==
    /\ pc[t] = "mount"
    /\ ~pageLock[page(t)]
    /\ apiRouter' = [apiRouter EXCEPT ![page(t)] =
                       AddComponents(@, result[t].routers)]
    /\ bundle' = TasksAppend(page(t), result[t].new_components)
    /\ pc' = [pc EXCEPT ![t] = "idle"]
    /\ UNCHANGED <<serving, builder, discarded, ctx, ctxLock, compLock, pageLock, cache, store, storeLock,
                   insts, body, stack, result, started, outputs, results, addCalls, initEvals, overlapped>>

Next ==
    \/ \E t \in Tasks : StartRender(t)
    \/ \E t \in Tasks : EnterPageLock(t)
    \/ \E t \in Tasks : EnterPageNew(t)
    \/ \E t \in Tasks : RenderComponent(t)
    \/ \E t \in Tasks : EnterTemporaryRender(t)
    \/ \E t \in Tasks : ExitTemporaryRender(t)
    \/ \E t \in Tasks : GlobalStoreAdd(t)
    \/ \E t \in Tasks : GlobalStoreNotify(t)
    \/ \E t \in Tasks : Commit(t)
    \/ \E t \in Tasks : Relock(t)
    \/ \E t \in Tasks : ExitPage(t)
    \/ \E t \in Tasks : Mount(t)

Spec == Init /\ [][Next]_vars

\* a caller of the render context API that holds the page of task t and has
\* entered it calls enter_page for the same page again before any exit_page
EnterPageAgain(t) ==
    /\ pc[t] = "body"
    /\ Len(stack[t]) = 1
    /\ started < MaxRenders
    /\ started' = started + 1
    /\ pc' = [pc EXCEPT ![t] = "enter"]
    /\ UNCHANGED <<bundle, serving, builder, discarded, ctx, ctxLock, compLock, pageLock, cache, store,
                   storeLock, insts, apiRouter, body, stack, result, outputs,
                   results, addCalls, initEvals, overlapped>>

\* the request handlers together with callers that use enter_page directly
DirectNext ==
    \/ Next
    \/ \E t \in Tasks : EnterPageAgain(t)

DirectSpec == Init /\ [][DirectNext]_vars

\* ------------------------------------------------- the Component builder
\* the variables of the render engine, which the builder does not touch
engine == <<ctx, ctxLock, compLock, pageLock, cache, store, storeLock, insts,
            apiRouter, body, pc, stack, result, started, outputs, results,
            addCalls, initEvals, overlapped, discarded, bundle, serving>>

\* a render / render_dynamic that returns the Component itself
ConcreteComponent == FALSE

\* render and render_dynamic return `impl BuildableComponent`: the caller
\* holds a value of which only the trait's build is known
ImplBuildableComponent == TRUE

\* the methods of `impl<R, S, ST> Component<R, S, ST>`; every builder method
\* takes the descriptor by value, build() consumes it for good
ComponentAddScript ==
    /\ ~builder.opaque /\ ~builder.built
    /\ builder' = [builder EXCEPT !.scripts = TRUE, !.added.scripts = TRUE]
    /\ UNCHANGED engine

ComponentStyle ==
    /\ ~builder.opaque /\ ~builder.built
    /\ builder' = [builder EXCEPT !.style = TRUE, !.added.style = TRUE]
    /\ UNCHANGED engine

\* Component::route and Component::nest_service
ComponentRouteMethod ==
    /\ ~builder.opaque /\ ~builder.built
    /\ builder' = [builder EXCEPT !.router = TRUE, !.added.route = TRUE]
    /\ UNCHANGED engine

\* `impl<S, ST> Component<NoRenderer, S, ST>`: render
ComponentRender ==
    /\ ~builder.opaque /\ ~builder.built
    /\ builder.renderer_state = "NoRenderer"
    /\ builder' = [builder EXCEPT !.renderer_state = "HasRenderer",
                                  !.opaque = ImplBuildableComponent,
                                  !.is_dynamic = FALSE,
                                  !.renderer = TRUE,
                                  !.render_calls = @ + 1]
    /\ UNCHANGED engine

\* `impl<S, ST> Component<NoRenderer, S, ST>`: render_dynamic
ComponentRenderDynamic ==
    /\ ~builder.opaque /\ ~builder.built
    /\ builder.renderer_state = "NoRenderer"
    /\ builder' = [builder EXCEPT !.renderer_state = "HasRenderer",
                                  !.opaque = ImplBuildableComponent,
                                  !.is_dynamic = TRUE,
                                  !.renderer = TRUE,
                                  !.render_calls = @ + 1]
    /\ UNCHANGED engine

\* with_runner of `impl<R> Component<R, FixedNoState, ()>` and of
\* `impl<R, ST> Component<R, HasState, ST>`
ComponentWithRunner ==
    /\ ~builder.opaque /\ ~builder.built
    /\ builder.state_state \in {"FixedNoState", "HasState"}
    /\ builder' = [builder EXCEPT !.runner = TRUE, !.added.runner = TRUE]
    /\ UNCHANGED engine

\* a with_state that starts from a descriptor without routes
ComponentWithStateDroppingRouter ==
    /\ ~builder.opaque /\ ~builder.built
    /\ builder.state_state = "NoState"
    /\ builder' = [builder EXCEPT !.renderer_state = "NoRenderer",
                                  !.state_state = "HasState",
                                  !.renderer = FALSE,
                                  !.runner = FALSE,
                                  !.router = FALSE,
                                  !.with_state_calls = @ + 1,
                                  !.state_after_renderer =
                                      @ \/ builder.renderer_state = "HasRenderer"]
    /\ UNCHANGED engine

\* `impl<R> Component<R, NoState, ()>`: with_state, for any R
ComponentWithState ==
    /\ ~builder.opaque /\ ~builder.built
    /\ builder.state_state = "NoState"
    /\ builder' = [builder EXCEPT !.renderer_state = "NoRenderer",
                                  !.state_state = "HasState",
                                  !.renderer = FALSE,
                                  !.runner = FALSE,
                                  !.with_state_calls = @ + 1,
                                  !.state_after_renderer =
                                      @ \/ builder.renderer_state = "HasRenderer"]
    /\ UNCHANGED engine

\* what build() hands on of the descriptor: the ComponentBuildResult's router
\* and runner, and the GlobalStoreEntry it offers to GlobalStore::add
BuildResult(c) ==
    [router |-> c.router, runner |-> c.runner,
     scripts |-> c.scripts, style |-> c.style]

\* `impl BuildableComponent for Component<HasRenderer, S, ST>`: build
ComponentBuild ==
    /\ ~builder.built
    /\ builder.renderer_state = "HasRenderer"
    /\ builder' = [builder EXCEPT !.built = TRUE, !.result = << BuildResult(builder) >>]
    /\ UNCHANGED engine

BuilderNext ==
    \/ ComponentAddScript
    \/ ComponentStyle
    \/ ComponentRouteMethod
    \/ ComponentRender
    \/ ComponentRenderDynamic
    \/ ComponentWithRunner
    \/ ComponentWithState
    \/ ComponentBuild

BuilderSpec == Init /\ [][BuilderNext]_vars

\* the steps of the request handler of page t once its request has arrived
TaskStep(t) ==
    \/ EnterPageLock(t)
    \/ EnterPageNew(t)
    \/ RenderComponent(t)
    \/ EnterTemporaryRender(t)
    \/ ExitTemporaryRender(t)
    \/ GlobalStoreAdd(t)
    \/ GlobalStoreNotify(t)
    \/ Commit(t)
    \/ Relock(t)
    \/ ExitPage(t)
    \/ Mount(t)

\* page 1 is given the body with the deepest component tree
FairInit == Init /\ body[1] \in NestedBodies

\* the tokio runtime keeps polling a handler that can go on, and a tokio
\* mutex is handed to its waiters in turn; no request is obliged to arrive
FairSpec ==
    /\ FairInit
    /\ [][Next]_vars
    /\ \A t \in Tasks : WF_vars(TaskStep(t))

\* ------------------------------------- bundling tasks and the endpoints
\* the component definition a resource id belongs to
DefOf(g) == CHOOSE d \in DefNames : Def(d).id = g

\* BuiltPage.used_globals: created empty, nothing ever inserts into it
UsedGlobals(p) == {}

\* the first statement of a bundling task that is left to run once the
\* GlobalStore entry has been fetched
AfterGet(g) ==
    IF store[g] = None THEN "done"
    ELSE IF Def(DefOf(g)).style THEN "style"
    ELSE IF Def(DefOf(g)).scripts THEN "script"
    ELSE "done"

\* a bundling task: page.lock().await.used_globals.contains(&id)
BundleCheck(g) ==
    /\ bundle[g].stage = "check"
    /\ ~pageLock[bundle[g].page]
    /\ bundle' = [bundle EXCEPT ![g].stage =
                     IF g \in UsedGlobals(bundle[g].page) THEN "done" ELSE "get"]
    /\ UNCHANGED <<serving, builder, discarded, ctx, ctxLock, compLock, pageLock, cache,
                   store, storeLock, insts, apiRouter, body, pc, stack, result,
                   started, outputs, results, addCalls, initEvals, overlapped>>

\* a bundling task: global_store().get(id)
BundleGet(g) ==
    /\ bundle[g].stage = "get"
    /\ storeLock = 0
    /\ bundle' = [bundle EXCEPT ![g].stage = AfterGet(g)]
    /\ UNCHANGED <<serving, builder, discarded, ctx, ctxLock, compLock, pageLock, cache,
                   store, storeLock, insts, apiRouter, body, pc, stack, result,
                   started, outputs, results, addCalls, initEvals, overlapped>>

\* a bundling task: page.lock().await.stylesheet.add(style)
BundleStyle(g) ==
    /\ bundle[g].stage = "style"
    /\ ~pageLock[bundle[g].page]
    /\ bundle' = [bundle EXCEPT ![g].stage =
                     IF Def(DefOf(g)).scripts THEN "script" ELSE "done"]
    /\ UNCHANGED <<serving, builder, discarded, ctx, ctxLock, compLock, pageLock, cache,
                   store, storeLock, insts, apiRouter, body, pc, stack, result,
                   started, outputs, results, addCalls, initEvals, overlapped>>

\* a bundling task: page.lock().await.bundled_script.push_str(..)
BundleScript(g) ==
    /\ bundle[g].stage = "script"
    /\ ~pageLock[bundle[g].page]
    /\ bundle' = [bundle EXCEPT ![g].stage = "done"]
    /\ UNCHANGED <<serving, builder, discarded, ctx, ctxLock, compLock, pageLock, cache,
                   store, storeLock, insts, apiRouter, body, pc, stack, result,
                   started, outputs, results, addCalls, initEvals, overlapped>>

\* the steps of the bundling task of resource id g
BundleStep(g) ==
    \/ BundleCheck(g)
    \/ BundleGet(g)
    \/ BundleStyle(g)
    \/ BundleScript(g)

\* BuiltPage::script up to the await in wait_for_tasks: the page mutex is
\* taken and kept
Script(p) ==
    /\ serving[p] = "idle"
    /\ ~pageLock[p]
    /\ pageLock' = [pageLock EXCEPT ![p] = TRUE]
    /\ serving' = [serving EXCEPT ![p] = "script"]
    /\ UNCHANGED <<bundle, builder, discarded, ctx, ctxLock, compLock, cache,
                   store, storeLock, insts, apiRouter, body, pc, stack, result,
                   started, outputs, results, addCalls, initEvals, overlapped>>

\* BuiltPage::style up to the await in wait_for_tasks
Style(p) ==
    /\ serving[p] = "idle"
    /\ ~pageLock[p]
    /\ pageLock' = [pageLock EXCEPT ![p] = TRUE]
    /\ serving' = [serving EXCEPT ![p] = "style"]
    /\ UNCHANGED <<bundle, builder, discarded, ctx, ctxLock, compLock, cache,
                   store, storeLock, insts, apiRouter, body, pc, stack, result,
                   started, outputs, results, addCalls, initEvals, overlapped>>

\* the handles in page.tasks
PageTasks(p) == {g \in GlobalIds : bundle[g].page = p /\ bundle[g].joined}

\* wait_for_tasks: join_all over the drained page.tasks has every task
\* finished (at once when there is none); the endpoint then answers and
\* drops the page guard
WaitForTasks(p) ==
    /\ serving[p] # "idle"
    /\ \A g \in PageTasks(p) : bundle[g].stage = "done"
    /\ bundle' = [g \in GlobalIds |->
                    IF g \in PageTasks(p) THEN [bundle[g] EXCEPT !.joined = FALSE]
                    ELSE bundle[g]]
    /\ pageLock' = [pageLock EXCEPT ![p] = FALSE]
    /\ serving' = [serving EXCEPT ![p] = "idle"]
    /\ UNCHANGED <<builder, discarded, ctx, ctxLock, compLock, cache,
                   store, storeLock, insts, apiRouter, body, pc, stack, result,
                   started, outputs, results, addCalls, initEvals, overlapped>>

\* the page handlers together with the spawned tasks and the two endpoints
ServeNext ==
    \/ Next
    \/ \E g \in GlobalIds : BundleStep(g)
    \/ \E p \in Pages : Script(p)
    \/ \E p \in Pages : Style(p)
    \/ \E p \in Pages : WaitForTasks(p)

\* the bodies of the pages whose endpoints are requested
ServedBodies == { <<"a", "b">> }

ServeInit == Init /\ body[1] \in ServedBodies

\* the runtime keeps polling handlers and spawned tasks that can go on; no
\* request is obliged to arrive
ServeSpec ==
    /\ ServeInit
    /\ [][ServeNext]_vars
    /\ \A t \in Tasks : WF_vars(TaskStep(t))
    /\ \A g \in GlobalIds : WF_vars(BundleStep(g))
    /\ \A p \in Pages : WF_vars(WaitForTasks(p))

TypeOK ==
    /\ ctxLock \in Tasks \cup {0}
    /\ storeLock \in Tasks \cup {0}
    /\ started \in 0..MaxRenders


\* ================================================================= claims
AllInsts ==
    UNION { {<<t, s, k>> : k \in 1..Len(insts[t][s])} : t \in Tasks, s \in Sites }

SiteSet(seq) == {seq[k] : k \in DOMAIN seq}

\* neither the definition nor anything it renders is forced-dynamic
RECURSIVE StaticTree(_)
StaticTree(d) ==
    /\ ~Def(d).forced
    /\ \A s \in SiteSet(Def(d).kids) : StaticTree(SiteDef(s))

\* the render function of the definition renders, at some depth, a
\* forced-dynamic component
RECURSIVE HasForcedDescendant(_)
HasForcedDescendant(d) ==
    \E s \in SiteSet(Def(d).kids) :
        Def(SiteDef(s)).forced \/ HasForcedDescendant(SiteDef(s))

\* C1: as long as page renders do not overlap, the render function of a
\* component with no dynamic descendants has been invoked at most once, and
\* a page made of such components only renders to the same markup twice.
C1_StaticRenderedOnce ==
    ~overlapped =>
        /\ \A i \in AllInsts : StaticTree(Inst(i).def) => Inst(i).n <= 1
        /\ \A p \in Pages :
              (Len(outputs[p]) >= 2
                 /\ \A s \in SiteSet(body[p]) : StaticTree(SiteDef(s)))
              => outputs[p][1] = outputs[p][2]

\* C2: a forced-dynamic component always has Dynamic content,
\* render_if_static on it is None, and its render function has been invoked
\* once for each BuiltComponent::render call made on it.
C2_ForcedStaysDynamic ==
    \A i \in AllInsts :
        Def(Inst(i).def).forced =>
            /\ Inst(i).content = "Dynamic"
            /\ RenderIfStatic(i) = <<>>
            /\ Inst(i).n = Inst(i).shown

C2_Witness ==
    \E i \in AllInsts : Def(Inst(i).def).forced /\ Inst(i).shown >= 2

\* C3: as long as page renders do not overlap, a component declared with
\* render whose render function renders a forced-dynamic descendant is
\* Dynamic once its build has classified it.
C3_PropagatesDynamic ==
    ~overlapped =>
        \A i \in AllInsts :
            (~Def(Inst(i).def).forced /\ HasForcedDescendant(Inst(i).def)
               /\ Inst(i).content # "Pending")
            => Inst(i).content = "Dynamic"

\* C4: as long as page renders do not overlap, the k-th complete render of a
\* page whose body is A (static) then B (forced-dynamic counter) is A's
\* markup of its first evaluation followed by B's markup of its k-th.
C4_StaticThenCounter ==
    ~overlapped =>
        \A p \in Pages :
            body[p] = <<"a", "b">> =>
                \A k \in 1..Len(outputs[p]) :
                    outputs[p][k] = Div("leaf", Text(1)) \o Div("counter", Text(k))

C4_Witness ==
    /\ ~overlapped
    /\ \E p \in Pages : body[p] = <<"a", "b">> /\ Len(outputs[p]) >= 2

\* C5: a step taken while the temporary render depth of the active context
\* is greater than 0 leaves every component cache unchanged.
C5_NoCacheWriteInProbe ==
    [][(ctx # <<>> /\ ctx[1].temporary_render_depth > 0) => cache' = cache]_vars

\* C6: as long as page renders do not overlap, the build closure of a
\* context id has been invoked at most once by the renders of a page.
C6_OneBuildPerIdentity ==
    ~overlapped => \A p \in Pages, s \in Sites : BuildCount(p, s) <= 1

\* a context id first met inside a probe, after two complete renders
C6_Witness ==
    /\ ~overlapped
    /\ \E p \in Pages :
          /\ Len(outputs[p]) >= 2
          /\ BuildCount(p, "d") = 1
          /\ cache[p]["d"] # None

\* C7: the lazy initializer of a resource id is evaluated exactly once however
\* many add calls name the id, and an add call on an id already present
\* changes neither the store nor the render context and keeps no lock.
C7_AddOnce ==
    /\ [](\A g \in GlobalIds : initEvals[g] = IF addCalls[g] > 0 THEN 1 ELSE 0)
    /\ [][\A g \in GlobalIds :
            (addCalls'[g] > addCalls[g] /\ store[g] # None)
            => /\ store' = store
               /\ ctx' = ctx
               /\ initEvals' = initEvals
               /\ storeLock' = storeLock]_vars

C7_Witness ==
    \E g \in GlobalIds : addCalls[g] >= 2 /\ initEvals[g] = 1 /\ store[g] # None

\* C8: two context ids cached by the same page hold different components
\* with different sub-routes.
C8_DistinctRoutes ==
    \A p \in Pages, s1 \in Sites, s2 \in Sites :
        (s1 # s2 /\ cache[p][s1] # None /\ cache[p][s2] # None)
        => /\ cache[p][s1] # cache[p][s2]
           /\ Inst(cache[p][s1]).route.full # Inst(cache[p][s2]).route.full

C10_OneRenderAtATime ==
    /\ Cardinality({t \in Tasks : pc[t] \in {"enter_new", "body"}}) <= 1
    /\ \A t \in Tasks : pc[t] = "body" => (ctx # <<>> /\ ctx[1].page = page(t))

\* the positions of a render_component call between its two lockings
BuildOrRender == {"enter_temp", "probe", "add", "notify", "real", "commit", "relock"}

\* C11: no render_component call of a task holds the render context mutex
\* while that call is inside build() (probing, GlobalStore::add) or inside a
\* render function, or between the render and the second lock
C11_LockFreeWhileBuilding ==
    \A t \in Tasks : \A k \in DOMAIN stack[t] :
        stack[t][k].pc \in BuildOrRender => ctxLock # t

C11_Witness ==
    \E t \in Tasks :
        /\ pc[t] = "body" /\ Len(stack[t]) >= 3
        /\ Top(t).pc = "real" /\ Top(t).hit
        /\ stack[t][Len(stack[t]) - 1].pc = "real"
        /\ ctxLock = 0

\* C12: a page render that has entered its page reaches exit_page, whatever
\* the nesting of its components and their global resources (every
\* render_component call on the way has returned by then), and the exit_page
\* step leaves the context slot empty
C12_RenderTerminates ==
    /\ \A t \in Tasks :
          (pc[t] = "body") ~> (pc[t] \in {"mount", "panicked"})
    /\ [][\A t \in Tasks :
            (pc[t] = "body" /\ pc'[t] \in {"mount", "panicked"}) => ctx' = <<>>]_vars

C12_Witness ==
    /\ pc[1] = "mount" /\ ctx = <<>> /\ ~overlapped
    /\ body[1] = <<"o">>
    /\ Len(insts[1]["o"]) = 1 /\ Len(insts[1]["w"]) = 1 /\ Len(insts[1]["d"]) = 1
    /\ store["idOuter"] # None /\ store["idWrap"] # None /\ store["idCounter"] # None

\* what render_component hands back without a context, debug or release build
NoPagePlaceholders == {Empty, Div("error: no page is being rendered", Empty)}

\* C13: a render_component call made while no render context is active
\* returns a placeholder (the diagnostic, or nothing in a release build) to
\* its caller, which goes on; no component is constructed or invoked, and the
\* context slot, the component caches and the global store stay as they were
C13_NoContextNoEffect ==
    [][\A t \in Tasks :
         (/\ pc[t] = "body"
          /\ HasNextKid(t, Top(t))
          /\ ctx = <<>>
          /\ stack'[t] # stack[t])
         => /\ pc'[t] = "body"
            /\ \E m \in NoPagePlaceholders :
                  stack'[t] = [stack[t] EXCEPT ![Len(stack[t])] = Receive(Top(t), m)]
            /\ insts' = insts
            /\ ctx' = <<>> /\ ctxLock' = 0
            /\ cache' = cache
            /\ store' = store /\ storeLock' = storeLock]_vars

C13_Witness ==
    \E t \in Tasks :
        /\ pc[t] = "body"
        /\ \E k \in DOMAIN stack[t] : \E j \in DOMAIN stack[t][k].acc :
              stack[t][k].acc[j].cls = "error: no page is being rendered"

\* everything the RenderResults returned so far hold in one of their fields
Returned(field) ==
    UNION {IF field = "new_components" THEN results[p][k].res.new_components
           ELSE {results[p][k].res[field][j] : j \in DOMAIN results[p][k].res[field]} :
             <<p, k>> \in {pk \in Pages \X (1..MaxRenders + 1) : pk[2] \in DOMAIN results[pk[1]]}}

\* C14: enter_page finding a context active puts a fresh context for its own
\* page in the slot, and no RenderResult of any exit_page holds a runner, a
\* sub-router or a new global id that a replaced context had accumulated
C14_ReplacedIsDiscarded ==
    /\ [](/\ Returned("runners") \cap discarded.runners = {}
          /\ Returned("routers") \cap discarded.routers = {}
          /\ Returned("new_components") \cap discarded.new_components = {})
    /\ [][\A t \in Tasks :
            (pc[t] = "enter_new" /\ pc'[t] = "body" /\ ctx # <<>>)
            => ctx' = << RenderContextNew(page(t)) >>]_vars

C14_Witness ==
    /\ ctx = <<>>
    /\ \A t \in Tasks : pc[t] \in {"idle", "mount", "panicked"}
    /\ discarded.runners # {}
    /\ discarded.new_components # {}
    /\ \E p \in Pages : results[p] # <<>>

\* C15: an enter_page call that has taken the render context mutex is never
\* left waiting for its page's component store, so it returns and releases
\* the mutex
C15_EnterPageReturns ==
    \A t \in Tasks : pc[t] = "enter_new" => ~compLock[page(t)]

\* the components of page p's renders that build() gave a runner / a router,
\* and the resource ids whose entry a component of page p's renders filled
BuiltWith(p, field) == {i \in AllInsts : i[1] = p /\ Def(Inst(i).def)[field]}
FilledBy(p) == {g \in GlobalIds : store[g] # None /\ store[g][1] = p}

\* what the earlier RenderResults of page p hold in one of their fields
ReturnedTo(p, field) ==
    UNION {IF field = "new_components" THEN results[p][k].res.new_components
           ELSE SiteSet(results[p][k].res[field]) : k \in DOMAIN results[p]}

NoRepeat(seq) == \A j, k \in DOMAIN seq : seq[j] = seq[k] => j = k

\* C16: when page renders do not overlap, the RenderResult an exit_page
\* returns holds, once each, the runner and the sub-router of every component
\* built since the matching enter_page and the resource ids first inserted
\* since then (everything built or inserted for the page and not returned by
\* an earlier exit_page); after the step no context is active and the page's
\* component store is unlocked
C16_ExitReturnsThisPass ==
    [][\A t \in Tasks :
         (pc[t] = "body" /\ pc'[t] = "mount" /\ ~overlapped)
         => /\ SiteSet(result'[t].runners)
                  = BuiltWith(page(t), "runner") \ ReturnedTo(page(t), "runners")
            /\ SiteSet(result'[t].routers)
                  = BuiltWith(page(t), "router") \ ReturnedTo(page(t), "routers")
            /\ NoRepeat(result'[t].runners) /\ NoRepeat(result'[t].routers)
            /\ result'[t].new_components
                  = FilledBy(page(t)) \ ReturnedTo(page(t), "new_components")
            /\ ctx' = <<>>
            /\ ~compLock'[page(t)]]_vars

C16_Witness ==
    /\ ~overlapped /\ ctx = <<>> /\ ~compLock[1]
    /\ Len(results[1]) = 2
    /\ results[1][1].res.runners # <<>>
    /\ results[1][1].res.routers # <<>>
    /\ results[1][1].res.new_components # {}
    /\ results[1][2].res = Finish(RenderContextNew(1))

\* C17: a task that holds the GlobalStore mutex is inside GlobalStore::add
\* (waiting to notify the context), not inside a render function, and build()
\* calls add only for a component whose probe is over
C17_StoreLockOnlyInAdd ==
    /\ \A t \in Tasks :
          storeLock = t => (pc[t] = "body" /\ Top(t).pc = "notify")
    /\ \A t \in Tasks : \A k \in DOMAIN stack[t] :
          stack[t][k].pc \in {"add", "notify"}
             => Inst(stack[t][k].inst).content # "Pending"

C17_Witness ==
    \E t \in Tasks :
        /\ storeLock = t
        /\ Len(stack[t]) >= 3
        /\ Top(t).pc = "notify"
        /\ Inst(Top(t).inst).n = 1
        /\ stack[t][Len(stack[t]) - 1].pc = "probe"

\* C18: when page renders do not overlap, a probe classifies its component
\* Dynamic only if a dynamic component was rendered by the probed render
\* function or below it; otherwise the component is Static after that one
\* invocation
C18_OwnDescendantsOnly ==
    [][\A t \in Tasks :
         (/\ pc[t] = "body"
          /\ Top(t).pc = "probe"
          /\ stack'[t] # stack[t]
          /\ FnDone(t, Top(t))
          /\ ~overlapped)
         => LET i == Top(t).inst IN
            /\ insts'[i[1]][i[2]][i[3]].content = "Dynamic" => Top(t).saw
            /\ insts'[i[1]][i[2]][i[3]].content = "Static" => Inst(i).n = 1]_vars

\* C19: a render_component call entered inside a temporary render never runs
\* the render function of a dynamic component: the call never gets to invoke
\* one, no dynamic component's render function is invoked by the step that
\* finds a cached component, and the markup the call holds is the static
\* snapshot of a Static component and empty for a Dynamic one
C19_NoDynamicRenderInProbe ==
    /\ [](\A t \in Tasks : \A k \in DOMAIN stack[t] :
            LET f == stack[t][k] IN
            f.temp => /\ f.pc # "real"
                      /\ f.pc \in {"commit", "relock"} =>
                            f.render = IF Inst(f.inst).content = "Static"
                                       THEN StaticRender(f.inst) ELSE Empty)
    /\ [][\A t \in Tasks :
            (/\ pc[t] = "body"
             /\ HasNextKid(t, Top(t))
             /\ ctx # <<>>
             /\ stack'[t] # stack[t])
            => (ctx[1].temporary_render_depth > 0
                  => \A i \in AllInsts :
                        Inst(i).content = "Dynamic"
                           => insts'[i[1]][i[2]][i[3]].n = Inst(i).n)]_vars

C19_Witness ==
    \E t \in Tasks :
        /\ pc[t] = "body"
        /\ Top(t).temp /\ Top(t).hit /\ Top(t).pc = "relock"
        /\ Inst(Top(t).inst).content = "Dynamic"
        /\ Top(t).render = Empty
        /\ ctx # <<>> /\ ctx[1].temporary_render_depth > 0

\* C20: when page renders do not overlap, the exit_temporary_render that
\* closes a probe returns true exactly when no dynamic component was rendered
\* during that probe; without a context, or at depth 0, it returns true (the
\* probed component becomes Static) and leaves the context as it was
C20_TrueIffNoDynamicRendered ==
    /\ [](\A t \in Tasks :
            (/\ pc[t] = "body"
             /\ Top(t).pc = "probe"
             /\ FnDone(t, Top(t))
             /\ ~overlapped)
            => (ExitTemporaryResult <=> ~Top(t).saw))
    /\ [][\A t \in Tasks :
            (/\ pc[t] = "body"
             /\ Top(t).pc = "probe"
             /\ FnDone(t, Top(t))
             /\ stack'[t] # stack[t]
             /\ (ctx = <<>> \/ ctx[1].temporary_render_depth = 0))
            => /\ ctx' = ctx
               /\ LET i == Top(t).inst IN
                  insts'[i[1]][i[2]][i[3]].content = "Static"]_vars

\* C21: the build() of a component not forced-dynamic whose probe ends while
\* no render context is active makes the content Static, frozen from the one
\* invocation of the render function; a Static component's render function
\* is never invoked again, its markup never changes, and render_if_static is
\* Some of that markup in the component's div
C21_NoContextBuildIsStatic ==
    /\ [][\A t \in Tasks :
            (/\ pc[t] = "body"
             /\ Top(t).pc = "probe"
             /\ FnDone(t, Top(t))
             /\ stack'[t] # stack[t]
             /\ ctx = <<>>)
            => LET i == Top(t).inst IN
               /\ Inst(i).n = 1
               /\ insts'[i[1]][i[2]][i[3]] =
                     [Inst(i) EXCEPT !.content = "Static",
                                     !.markup = RendererOutput(1, Top(t).acc)]]_vars
    /\ [](\A i \in AllInsts :
            Inst(i).content = "Static"
            => /\ Inst(i).n = 1
               /\ RenderIfStatic(i)
                    = << Div(pascal_to_kebab(Def(Inst(i).def).name), Inst(i).markup) >>)
    /\ [][\A i \in AllInsts :
            Inst(i).content = "Static"
            => /\ insts'[i[1]][i[2]][i[3]].content = "Static"
               /\ insts'[i[1]][i[2]][i[3]].markup = Inst(i).markup]_vars

\* a Wrap built while the context was gone: its child call got the
\* placeholder, it is Static and has been rendered once
C21_Witness ==
    \E t \in Tasks :
        /\ pc[t] = "body"
        /\ Top(t).pc = "commit" /\ ~Top(t).temp
        /\ LET c == Inst(Top(t).inst) IN
           /\ c.def = "Wrap" /\ c.content = "Static"
           /\ c.n = 1 /\ c.shown = 1
           /\ c.markup = Text(1) \o NoPageMarkup

\* the render_component calls in progress, and the components whose build()
\* is still running
Frames == UNION {{stack[t][k] : k \in DOMAIN stack[t]} : t \in Tasks}
Building ==
    {f.inst : f \in {g \in Frames :
                       ~g.hit /\ g.pc \in {"enter_temp", "probe", "add", "notify"}}}

\* C22: once the build() of a component is over the GlobalStore has an entry
\* under the component's id; an entry is filled by the first add made under
\* its id, with the resources of the component that made it, and no step
\* replaces or removes an entry
C22_StoreOnlyGrows ==
    /\ [](\A i \in AllInsts \ Building : store[Def(Inst(i).def).id] # None)
    /\ [][\A g \in GlobalIds :
            /\ store[g] # None => store'[g] = store[g]
            /\ (store[g] = None /\ store'[g] # None)
                 => /\ addCalls[g] = 0
                    /\ Def(Inst(store'[g]).def).id = g]_vars

C22_Witness ==
    \E g \in GlobalIds : \E i \in AllInsts \ Building :
        /\ store[g] # None
        /\ Def(Inst(i).def).id = g
        /\ i # store[g]
        /\ addCalls[g] >= 2

\* C23: a render_component call that finds no context when it locks again
\* after its build or its cached render returns the page-exited diagnostic to
\* its caller; the step inserts into no component cache and, the slot staying
\* empty, records no runner and no sub-router
C23_ContextGoneAtRelock ==
    [][\A t \in Tasks :
         (/\ pc[t] = "body"
          /\ \/ Top(t).pc \in {"commit", "relock"}
             \/ Top(t).pc = "real" /\ FnDone(t, Top(t))
          /\ ctx = <<>>
          /\ stack'[t] # stack[t])
         => LET n == Len(stack[t]) IN
            /\ pc'[t] = "body"
            /\ Len(stack'[t]) = n - 1
            /\ stack'[t][n - 1].acc
                  = stack[t][n - 1].acc \o Div("error: page render exited", Empty)
            /\ stack'[t][n - 1].kidx = stack[t][n - 1].kidx + 1
            /\ cache' = cache
            /\ ctx' = <<>>
            /\ insts' = insts]_vars

\* page 2's body has got the diagnostic for its Counter, which was built
\* during the call and is in no cache and in no context
C23_Witness ==
    /\ pc[2] = "body"
    /\ Len(stack[2]) = 1
    /\ Top(2).acc = Div("error: page render exited", Empty)
    /\ Len(insts[2]["b"]) = 1
    /\ \A p \in Pages : cache[p]["b"] # <<2, "b", 1>>
    /\ <<2, "b", 1>> \notin discarded.runners
    /\ ctx = <<>>

\* C24: whatever methods are called on a descriptor, state is attached at
\* most once and never to a descriptor that has a renderer, a renderer is
\* attached at most once, and a descriptor that was built had exactly one
\* render / render_dynamic call and holds its renderer
C24_LegalConstruction ==
    /\ builder.with_state_calls <= 1
    /\ ~builder.state_after_renderer
    /\ builder.render_calls <= 1
    /\ builder.built => (builder.render_calls = 1 /\ builder.renderer)

C24_Witness ==
    /\ builder.built
    /\ builder.with_state_calls = 1
    /\ builder.runner /\ builder.router /\ builder.style /\ builder.scripts
    /\ builder.is_dynamic

\* C25: when page renders do not overlap, a render_component call made
\* inside a temporary render for a context id cached with Dynamic content
\* leaves the context marked non-static when it returns, and a probe during
\* which a dynamic component was rendered classifies its component Dynamic
C25_CachedDynamicMarksProbe ==
    /\ [][\A t \in Tasks :
            (/\ pc[t] = "body"
             /\ Top(t).pc = "relock" /\ Top(t).temp /\ Top(t).hit
             /\ IsDynamic(Top(t).inst)
             /\ stack'[t] # stack[t]
             /\ ctx # <<>>
             /\ ~overlapped)
            => ~ctx'[1].static_state]_vars
    /\ [][\A t \in Tasks :
            (/\ pc[t] = "body"
             /\ Top(t).pc = "probe"
             /\ FnDone(t, Top(t))
             /\ stack'[t] # stack[t]
             /\ Top(t).saw
             /\ ~overlapped)
            => LET i == Top(t).inst IN
               insts'[i[1]][i[2]][i[3]].content = "Dynamic"]_vars

\* C26: the commit of a built component makes it the one entry of its
\* context id in the component store of the active context, whatever was
\* there (so of two calls that both missed, the later commit stays), and
\* changes no other entry
C26_LastInsertWins ==
    [][\A t \in Tasks :
         (/\ pc[t] = "body"
          /\ \/ Top(t).pc = "commit"
             \/ Top(t).pc = "real" /\ ~Top(t).hit /\ FnDone(t, Top(t))
          /\ ctx # <<>>
          /\ stack'[t] # stack[t])
         => \A p \in Pages, s \in Sites :
               cache'[p][s] = IF p = ctx[1].page /\ s = Top(t).site
                              THEN Top(t).inst ELSE cache[p][s]]_vars

\* both pages' handlers missed context id b in page 2's store and evaluated
\* the build closure; the first has committed, the second is about to
C26_Witness ==
    /\ pc[1] = "body" /\ pc[2] = "body"
    /\ ctx # <<>> /\ ctx[1].page = 2
    /\ cache[2]["b"] = <<1, "b", 1>>
    /\ Top(2).site = "b" /\ ~Top(2).hit /\ Top(2).inst = <<2, "b", 1>>
    /\ Top(2).pc = "real" /\ FnDone(2, Top(2))

\* C27: every component in the component store of a page was built by a
\* render_component call that the body of that page issued
C27_OwnPageCacheOnly ==
    \A p \in Pages, s \in Sites :
        cache[p][s] # None => page(cache[p][s][1]) = p

\* the renders of page p have built a component whose resource id is g
Uses(p, g) == \E s \in Sites : insts[p][s] # <<>> /\ Def(SiteDef(s)).id = g

\* C28: when page renders do not overlap, a page whose render has built a
\* component with resource id g eventually has g in the new_components of a
\* RenderResult of one of its own renders
C28_EveryPageGetsItsResources ==
    \A p \in Pages, g \in GlobalIds :
        Uses(p, g) ~> (overlapped \/ g \in ReturnedTo(p, "new_components"))

\* the RenderResults, by page and position, that report resource id g
ReportsOf(g) ==
    {pk \in Pages \X (1..MaxRenders + 1) :
        /\ pk[2] \in DOMAIN results[pk[1]]
        /\ g \in results[pk[1]][pk[2]].res.new_components}

\* C29: a resource id is in the new_components of at most one RenderResult
\* of the whole run, and an id that has been reported is in the GlobalStore
C29_ReportedAtMostOnce ==
    \A g \in GlobalIds :
        /\ Cardinality(ReportsOf(g)) <= 1
        /\ ReportsOf(g) # {} => store[g] # None

\* Counter's id was reported to page 2; page 1 has since built a Counter,
\* called add again and finished its render without a second report
C29_Witness ==
    /\ ReportsOf("idCounter") = {<<2, 1>>}
    /\ Uses(1, "idCounter")
    /\ addCalls["idCounter"] >= 2
    /\ Len(results[1]) >= 1
    /\ results[1][Len(results[1])].from = 1

\* the positions in the RenderResults of page p whose runner / sub-router
\* satisfies Q
Reported(p, field, Q(_)) ==
    {kj \in (1..MaxRenders + 1) \X (1..8) :
        /\ kj[1] \in DOMAIN results[p]
        /\ kj[2] \in DOMAIN results[p][kj[1]].res[field]
        /\ Q(results[p][kj[1]].res[field][kj[2]])}

\* C30: when page renders do not overlap, the runner and the sub-router of a
\* component are never in more than one place of the page's RenderResults
\* and are in exactly one once the render that built the component is over,
\* and no context id has contributed more than one runner or sub-router
C30_RunnerRouterOnce ==
    ~overlapped =>
        \A p \in Pages :
            /\ \A i \in BuiltWith(p, "runner") :
                  LET n == Cardinality(Reported(p, "runners", LAMBDA x : x = i)) IN
                  n <= 1 /\ (pc[p] \in {"idle", "mount"} => n = 1)
            /\ \A i \in BuiltWith(p, "router") :
                  LET n == Cardinality(Reported(p, "routers", LAMBDA x : x = i)) IN
                  n <= 1 /\ (pc[p] \in {"idle", "mount"} => n = 1)
            /\ \A s \in Sites :
                  /\ Cardinality(Reported(p, "runners", LAMBDA x : x[2] = s)) <= 1
                  /\ Cardinality(Reported(p, "routers", LAMBDA x : x[2] = s)) <= 1

\* two complete renders of Outer > Wrap > Counter: the Counter built inside
\* the probes gave its runner to the first RenderResult only
C30_Witness ==
    /\ ~overlapped
    /\ body[1] = <<"o">>
    /\ Len(results[1]) = 2
    /\ results[1][1].res.runners = << <<1, "d", 1>> >>
    /\ results[1][2].res.runners = <<>>
    /\ pc[1] = "idle"

\* an endpoint of page p waits, the page mutex in hand, for a task of the
\* page that has a page.lock() ahead of it
Stuck(p) ==
    /\ serving[p] # "idle"
    /\ \E g \in PageTasks(p) : bundle[g].stage \in {"check", "style", "script"}

\* C31: a request to the script or style endpoint of a page eventually
\* completes.
C31_EndpointCompletes ==
    \A p \in Pages : (serving[p] # "idle") ~> (serving[p] = "idle")

\* the render functions task t is inside of as a probe: build() is between
\* its enter_temporary_render and its exit_temporary_render
Probing(t) == {k \in DOMAIN stack[t] : stack[t][k].pc = "probe"}

\* C32: as long as page renders do not overlap, the temporary render depth
\* is the number of probes in progress, so it is the same before and after
\* every render_component call, and it is 0 when the body has returned and
\* exit_page is called.
C32_DepthBalanced ==
    ~overlapped =>
        \A t \in Tasks :
            (pc[t] = "body" /\ ctx # <<>>) =>
                /\ ctx[1].temporary_render_depth = Cardinality(Probing(t))
                /\ (Top(t).pc = "body" /\ FnDone(t, Top(t)))
                      => ctx[1].temporary_render_depth = 0

\* a body whose component rendered components of its own inside its probe
\* has returned, with exit_page next
C32_Witness ==
    /\ ~overlapped
    /\ \E t \in Tasks :
          /\ pc[t] = "body" /\ ctx # <<>>
          /\ Top(t).pc = "body" /\ FnDone(t, Top(t))
          /\ ctx[1].temporary_render_depth = 0
          /\ \E s \in Sites : \E k \in DOMAIN insts[t][s] :
                Def(insts[t][s][k].def).kids # <<>> /\ insts[t][s][k].n >= 1

\* task t is inside a render_component call that found its component in
\* the cache of the page being rendered
InCachedCall(t) ==
    /\ ctx # <<>>
    /\ \E k \in DOMAIN stack[t] :
          /\ stack[t][k].inst # None
          /\ cache[ctx[1].page][stack[t][k].site] = stack[t][k].inst

\* C33: as long as page renders do not overlap, no step taken from the start
\* to the return of a render_component call that serves a cached component
\* changes the component cache, the collected runners and routers, the new
\* global ids or the temporary render depth, and none invokes a build closure.
C33_CachedCallChangesNothing ==
    [][\A t \in Tasks :
          (~overlapped' /\ (InCachedCall(t) \/ InCachedCall(t)')) =>
              /\ cache' = cache
              /\ ctx' # <<>> /\ ctx # <<>>
              /\ ctx'[1].new_runners = ctx[1].new_runners
              /\ ctx'[1].new_routers = ctx[1].new_routers
              /\ ctx'[1].new_globals = ctx[1].new_globals
              /\ ctx'[1].temporary_render_depth = ctx[1].temporary_render_depth
              /\ \A s \in Sites : Len(insts'[t][s]) = Len(insts[t][s])]_vars

\* a cached dynamic component that has a runner, and a cached static one that
\* has a router, have been served and the calls have returned
C33_Witness ==
    /\ ~overlapped
    /\ \E t \in Tasks :
          /\ pc[t] = "body" /\ Len(stack[t]) = 1 /\ Top(t).kidx = 3
          /\ Len(outputs[page(t)]) = 1
          /\ body[page(t)] = <<"a", "b">>
          /\ Len(insts[t]["a"]) = 1 /\ Len(insts[t]["b"]) = 1
          /\ insts[t]["b"][1].n = 2

\* task t is about to take, or waits for, the GlobalStore mutex
WantsStore(t) == pc[t] = "body" /\ Top(t).pc = "add"

\* C34: a task that holds the render context mutex neither holds nor asks
\* for the GlobalStore mutex (add takes the store first, the context second),
\* and every GlobalStore::add that has taken the store mutex gets the render
\* context mutex in the end and releases both.
C34_StoreBeforeContext ==
    /\ [](\A t \in Tasks : ctxLock = t => (storeLock # t /\ ~WantsStore(t)))
    /\ \A t \in Tasks : (storeLock = t) ~> (storeLock = 0)

\* an add holds the store mutex and waits for the render context mutex,
\* which the enter_page of the other page holds
C34_Witness ==
    \E t, u \in Tasks :
        /\ t # u
        /\ storeLock = t /\ Top(t).pc = "notify"
        /\ ctxLock = u /\ pc[u] = "enter_new"

\* the component of frame f was not declared dynamic and is Dynamic all the
\* same: a probe found a dynamic component below it
Propagated(f) ==
    /\ f.inst # None
    /\ ~Def(Inst(f.inst).def).forced
    /\ Inst(f.inst).content = "Dynamic"

\* C35: as long as page renders do not overlap, a render_component call made
\* by the page body (depth 0) for a component that is Dynamic by propagation
\* returns with the render function invoked twice in all when the call built
\* the component, and invoked once more than at the start of the call when
\* the component was cached by an earlier page render.
C35_TwiceThenOnce ==
    [][\A t \in Tasks :
          (/\ ~overlapped'
           /\ pc[t] = "body" /\ Len(stack[t]) = 2 /\ Len(stack'[t]) = 1
           /\ Propagated(Top(t)) /\ ~Top(t).temp) =>
              LET f == Top(t) IN
              /\ f.pc = "real"
              /\ ~f.hit => Inst(f.inst).n = 2 /\ insts' = insts
              /\ f.hit => Inst(f.inst).n = f.nval /\ insts' = insts
              /\ Inst(f.inst).shown = Inst(f.inst).n - 1]_vars

\* a Wrap made Dynamic by its Counter was built by the first render of the
\* page and has been served from the cache by the second
C35_Witness ==
    /\ ~overlapped
    /\ \E t \in Tasks :
          /\ Len(outputs[page(t)]) = 2
          /\ body[page(t)] = <<"w1", "w2">>
          /\ Len(insts[t]["w1"]) = 1
          /\ insts[t]["w1"][1].content = "Dynamic"
          /\ insts[t]["w1"][1].n = 3

\* the descriptor has just gone through with_state, render or render_dynamic
Transition ==
    \/ builder'.with_state_calls # builder.with_state_calls
    \/ builder'.render_calls # builder.render_calls

\* C36: build() returns a router exactly when route or nest_service was
\* called on the descriptor and a runner exactly when with_runner was, it
\* offers the scripts and the style that were added, and with_state, render
\* and render_dynamic leave the scripts, the style and the router as they are.
C36_BuildKeepsWhatWasAdded ==
    /\ [](builder.built =>
            /\ builder.result[1].router = builder.added.route
            /\ builder.result[1].runner = builder.added.runner
            /\ builder.result[1].scripts = builder.added.scripts
            /\ builder.result[1].style = builder.added.style)
    /\ [][Transition =>
            /\ builder'.scripts = builder.scripts
            /\ builder'.style = builder.style
            /\ builder'.router = builder.router]_vars

\* a descriptor that got a route and a script before with_state, then a
\* runner and a style, was built and returned a router and a runner
C36_Witness ==
    /\ builder.built
    /\ builder.with_state_calls = 1
    /\ builder.result[1] = [router |-> TRUE, runner |-> TRUE,
                            scripts |-> TRUE, style |-> TRUE]

====
